---- MODULE Spec2Model ----
(***************************************************************************)
(* Role-based creative chatbot (streamlit_app.py).                         *)
(*                                                                         *)
(* The program is a Streamlit script: every interaction re-executes main() *)
(* from top to bottom against the session state.  One action of the model  *)
(* is one such script run.  st.button returns True for at most one button  *)
(* per run, so a run is a "Generate Response" run, a "Clear history" run   *)
(* or a run caused by another widget.                                      *)
(*                                                                         *)
(* Text is modelled as a sequence of characters (one-character strings);   *)
(* longer fixed fragments (prompts, the mock answer's lines, error codes)  *)
(* are single elements of such a sequence.  The role keys of the source    *)
(* end with an emoji, which is left out of the names below.  The value of  *)
(* the "Model" selectbox is passed to the provider as it is and is not     *)
(* kept in the state.                                                      *)
(***************************************************************************)
EXTENDS Naturals, Sequences, FiniteSets

VARIABLES
    chat_history,   \* st.session_state.chat_history
    clicked,        \* the button that caused the last script run
    submit,         \* widget values read by the Generate handler of the last run
    request,        \* messages handed to chat.completions.create in the last run
    response,       \* what the text provider did with that request
    answer,         \* main's local `answer` (None or the returned text)
    notice,         \* st.error / st.warning raised by the Generate handler
    render,         \* what the last run rendered
    role_options    \* options of the "Choose a role" selectbox in the last run

vars == <<chat_history, clicked, submit, request, response, answer, notice,
          render, role_options>>

----------------------------------------------------------------------------
(* Bounds *)

\* Turns a session may commit before the model stops accepting submits.
MaxTurns == 2

----------------------------------------------------------------------------
(* 1. Role table *)

RoleOrder ==
    << "Video Director", "Dance Instructor", "Fashion Stylist",
       "Acting Coach", "Art Curator" >>

ROLE_DEFINITIONS ==
    [ r \in { RoleOrder[i] : i \in 1..Len(RoleOrder) } |->
        CASE r = "Video Director" ->
               [ short         |-> "Analyzes mood, camera angle, lighting",
                 system_prompt |-> <<"You are a professional film director.">>,
                 example       |-> <<"How can I shoot a dream sequence?">>,
                 ascii         |-> "VIDEO DIRECTOR" ]
          [] r = "Dance Instructor" ->
               [ short         |-> "Suggests movement, rhythm, expression",
                 system_prompt |-> <<"You are a contemporary dance instructor.">>,
                 example       |-> <<"How can I express sadness through movement?">>,
                 ascii         |-> "DANCE INSTRUCTOR" ]
          [] r = "Fashion Stylist" ->
               [ short         |-> "Explains color trends, materials, silhouette",
                 system_prompt |-> <<"You are a professional fashion stylist.">>,
                 example       |-> <<"What style fits a confident personality?">>,
                 ascii         |-> "FASHION STYLIST" ]
          [] r = "Acting Coach" ->
               [ short         |-> "Teaches emotion delivery, scene breakdown",
                 system_prompt |-> <<"You are an acting coach.">>,
                 example       |-> <<"How to express fear naturally on stage?">>,
                 ascii         |-> "ACTING COACH" ]
          [] r = "Art Curator" ->
               [ short         |-> "Interprets artwork, connects with data",
                 system_prompt |-> <<"You are a museum art curator.">>,
                 example       |-> <<"How does this composition convey emotion?">>,
                 ascii         |-> "ART CURATOR" ] ]

\* list(ROLE_DEFINITIONS.keys()): a dict lists its keys in insertion order.
RoleKeys == RoleOrder

\* `name in ROLE_DEFINITIONS`; a subscript with a name outside it raises KeyError.
HasKey(name) == name \in DOMAIN ROLE_DEFINITIONS

----------------------------------------------------------------------------
(* Text helpers: str.strip, str.startswith, the `in` substring test *)

Whitespace == { " ", "\n", "\t" }

RECURSIVE lstrip(_)
lstrip(s) ==
    IF s # <<>> /\ Head(s) \in Whitespace THEN lstrip(Tail(s)) ELSE s

RECURSIVE rstrip(_)
rstrip(s) ==
    IF s # <<>> /\ s[Len(s)] \in Whitespace
    THEN rstrip(SubSeq(s, 1, Len(s) - 1))
    ELSE s

strip(s) == rstrip(lstrip(s))

startswith(s, prefix) ==
    /\ Len(s) >= Len(prefix)
    /\ SubSeq(s, 1, Len(prefix)) = prefix

contains(s, fragment) == \E i \in 1..Len(s) : s[i] = fragment

\* The literal "e.g.," of the placeholder text.
Placeholder == << "e", ".", "g", ".", "," >>

----------------------------------------------------------------------------
(* Python's None / a value *)

None == <<>>
Some(v) == << v >>

----------------------------------------------------------------------------
(* Inputs of a script run *)

\* The API key text input: left empty, or filled in.
ApiKeys == { "", "sk-key" }

\* The text area starts as f"e.g., {example_text}".
DefaultInput(r) == Placeholder \o << " " >> \o ROLE_DEFINITIONS[r].example

TypedInputs ==
    { <<>>,
      << " ", "\n" >>,
      << " ", "e", ".", "g", ".", ",", " ", "a" >>,
      << " ", "a", "\n" >>,
      << "e", ".", "g", ".", " ", "a" >> }

UserInputs(r) == { DefaultInput(r) } \cup TypedInputs

\* What chat.completions.create does: it returns a completion whose content
\* is `text`, or raises an OpenAIError with an error code and a message.
\* str(e) of the library's error carries the error body: code and message.
Completion(text) == [ kind |-> "completion", code |-> "", text |-> text ]
ApiError(code, message) == [ kind |-> "error", code |-> code, text |-> message ]
NoResponse == [ kind |-> "none", code |-> "", text |-> <<>> ]

\* The second completion is blank: its stripped content is "", which is
\* not None.
ProviderResponses ==
    { Completion(<< " ", "o", "k", "\n" >>),
      Completion(<< " " >>),
      ApiError("insufficient_quota", << "You exceeded your current quota" >>),
      ApiError("rate_limit_exceeded", << "Rate limit reached" >>),
      ApiError("invalid_request_error",
               << "Unsupported value:", "insufficient_quota" >>) }

StrOfError(e) == << "Error code:", e.code >> \o e.text

\* get_avatar_emoji: the emoji markup of the avatar (EmojiHub's htmlCode or
\* the default emoji); it is stored in the entry and read by no decision.
get_avatar_emoji == "avatar-emoji"

----------------------------------------------------------------------------
(* 2. call_openai_chat *)

MockResponse ==
    << "[Mock response]", "\n",
       "no OpenAI credit left, the real model cannot be called", "\n",
       "how this role could think about it instead:", "\n", "\n",
       "- analyse emotion, composition and rhythm one by one", "\n",
       "- decide the emotion the audience should feel first", "\n",
       "- compare several short sketches before the real shoot", "\n" >>

\* Variant: the earlier turns are added after the new user message.
BuildMessages_history_last(system_prompt, user_message, history) ==
    << [ role |-> "system", content |-> system_prompt ],
       [ role |-> "user", content |-> user_message ] >> \o history

\* messages = [system] + history + [user]
BuildMessages(system_prompt, user_message, history) ==
    LET first == << [ role |-> "system", content |-> system_prompt ] >>
        extended == IF history # <<>> THEN first \o history ELSE first
    IN  Append(extended, [ role |-> "user", content |-> user_message ])

\* Variant: the quota fallback is missing, every OpenAIError is re-raised.
call_openai_chat_always_raises(resp) ==
    IF resp.kind = "completion"
    THEN [ raised |-> FALSE, value |-> strip(resp.text) ]
    ELSE [ raised |-> TRUE,
           value  |-> << "OpenAI API error:" >> \o StrOfError(resp) ]

\* The try/except around the provider call: the function returns the
\* stripped content, returns the mock text, or raises RuntimeError.
call_openai_chat(resp) ==
    IF resp.kind = "completion"
    THEN [ raised |-> FALSE, value |-> strip(resp.text) ]
    ELSE IF contains(StrOfError(resp), "insufficient_quota")
         THEN [ raised |-> FALSE, value |-> MockResponse ]
         ELSE [ raised |-> TRUE,
                value  |-> << "OpenAI API error:" >> \o StrOfError(resp) ]

----------------------------------------------------------------------------
(* 5. main: the Generate handler *)

\* Variant: the placeholder test is made but the raw text is passed on.
clean_input_unstripped(user_input) ==
    IF startswith(strip(user_input), Placeholder) THEN <<>> ELSE user_input

\* Variant: the placeholder test is made on the raw text, before stripping.
clean_input_raw_prefix(user_input) ==
    IF startswith(user_input, Placeholder) THEN <<>> ELSE strip(user_input)

clean_input(user_input) ==
    IF startswith(strip(user_input), Placeholder) THEN <<>> ELSE strip(user_input)

history_for_api(history) ==
    [ i \in 1..Len(history) |->
        [ role |-> history[i].role, content |-> history[i].content ] ]

\* except RuntimeError: answer = None
AnswerOf(result) == IF result.raised THEN None ELSE Some(result.value)

UserEntry(text) ==
    [ role |-> "user", content |-> text, role_name |-> "You", avatar |-> "" ]

\* Variant: the assistant entry keeps the user entry's "You" tag.
AssistantEntry_tagged_You(text, role_name, avatar) ==
    [ role |-> "assistant", content |-> text, role_name |-> "You",
      avatar |-> avatar ]

AssistantEntry(text, role_name, avatar) ==
    [ role |-> "assistant", content |-> text, role_name |-> role_name,
      avatar |-> avatar ]

\* Variant: the new turn is put in front of the earlier ones.
AppendTurn_newest_first(history, text, reply, role_name, avatar) ==
    << UserEntry(text), AssistantEntry(reply, role_name, avatar) >> \o history

\* The two appends done when answer is not None.
AppendTurn(history, text, reply, role_name, avatar) ==
    Append(Append(history, UserEntry(text)),
           AssistantEntry(reply, role_name, avatar))

\* Variant: the user entry is appended before the provider call, and so
\* also when the call fails.
HistoryAfter_dangling(history, ans, text, role_name, avatar) ==
    IF ans # None
    THEN AppendTurn(history, text, ans[1], role_name, avatar)
    ELSE Append(history, UserEntry(text))

\* `if answer is not None:` around the appends.
HistoryAfter(history, ans, text, role_name, avatar) ==
    IF ans # None
    THEN AppendTurn(history, text, ans[1], role_name, avatar)
    ELSE history

----------------------------------------------------------------------------
(* 5. main: rendering of the latest response and of the history column *)

Min(S) == CHOOSE x \in S : \A y \in S : x <= y

Render(history) ==
    LET n      == Len(history)
        latest == n > 0 /\ history[n].role = "assistant"
        bad    == { i \in 1..n : /\ history[i].role # "user"
                                 /\ ~HasKey(history[i].role_name) }
    IN  IF latest /\ ~HasKey(history[n].role_name)
        THEN [ shown |-> FALSE, listed |-> 0, crashed |-> TRUE ]
        ELSE IF bad # {}
        THEN [ shown |-> latest, listed |-> Min(bad) - 1, crashed |-> TRUE ]
        ELSE [ shown |-> latest, listed |-> n, crashed |-> FALSE ]

\* Variant: only the last turn is dropped.
ClearedHistory_drop_last_turn(history) ==
    IF Len(history) >= 2 THEN SubSeq(history, 1, Len(history) - 2) ELSE <<>>

\* st.session_state.chat_history = []
ClearedHistory(history) == <<>>

----------------------------------------------------------------------------
(* State machine: one action per script run *)

NoSubmit == [ api_key |-> "", role_name |-> "", user_input |-> <<>> ]

Init ==
    /\ chat_history = <<>>
    /\ clicked = "none"
    /\ submit = NoSubmit
    /\ request = None
    /\ response = NoResponse
    /\ answer = None
    /\ notice = "none"
    /\ render = Render(<<>>)
    /\ role_options = RoleKeys

\* The handler's effect once its inputs and the provider's behaviour are fixed.
Handled(key, r, input, sent, resp, ans, msg, avatar) ==
    /\ clicked' = "generate"
    /\ submit' = [ api_key |-> key, role_name |-> r, user_input |-> input ]
    /\ request' = sent
    /\ response' = resp
    /\ answer' = ans
    /\ notice' = msg
    /\ chat_history' = HistoryAfter(chat_history, ans, clean_input(input), r, avatar)
    /\ render' = Render(chat_history')
    /\ role_options' = RoleKeys

\* A run in which "Generate Response" was clicked.
GenerateResponse ==
    /\ Len(chat_history) < 2 * MaxTurns
    /\ \E key \in ApiKeys, i \in 1..Len(RoleKeys) :
         LET r == RoleKeys[i] IN
         \E input \in UserInputs(r) :
           IF key = ""
           THEN Handled(key, r, input, None, NoResponse, None, "NoApiKey", "")
           ELSE IF clean_input(input) = <<>>
           THEN Handled(key, r, input, None, NoResponse, None, "EmptyInput", "")
           ELSE \E resp \in ProviderResponses :
                  LET sent   == BuildMessages(ROLE_DEFINITIONS[r].system_prompt,
                                              clean_input(input),
                                              history_for_api(chat_history))
                      result == call_openai_chat(resp)
                  IN  Handled(key, r, input, sent, resp, AnswerOf(result),
                              IF result.raised THEN "ProviderError" ELSE "none",
                              get_avatar_emoji)

\* A run in which "Clear history" was clicked: the history is rendered
\* first, the button is the script's last statement.
ClearHistory ==
    /\ clicked' = "clear"
    /\ submit' = NoSubmit
    /\ request' = None
    /\ response' = NoResponse
    /\ answer' = None
    /\ notice' = "none"
    /\ render' = Render(chat_history)
    /\ chat_history' = IF render'.crashed THEN chat_history
                       ELSE ClearedHistory(chat_history)
    /\ role_options' = RoleKeys

\* A run caused by any other widget: nothing is clicked.
Rerun ==
    /\ clicked' = "none"
    /\ submit' = NoSubmit
    /\ request' = None
    /\ response' = NoResponse
    /\ answer' = None
    /\ notice' = "none"
    /\ render' = Render(chat_history)
    /\ UNCHANGED chat_history
    /\ role_options' = RoleKeys

Next == GenerateResponse \/ ClearHistory \/ Rerun

Spec == Init /\ [][Next]_vars

----------------------------------------------------------------------------
(* Vocabulary of the properties, stated independently of the operators above *)

Lowest(S)  == CHOOSE x \in S : \A y \in S : x <= y
Highest(S) == CHOOSE x \in S : \A y \in S : x >= y

\* s without its leading and trailing whitespace.
Trimmed(s) ==
    LET kept == { i \in 1..Len(s) : s[i] \notin Whitespace }
    IN  IF kept = {} THEN <<>> ELSE SubSeq(s, Lowest(kept), Highest(kept))

\* The cleaned form of a raw text: empty when the trimmed text starts with
\* "e.g.,", else the trimmed text.
CleanedForm(raw) ==
    LET t == Trimmed(raw)
    IN  IF Len(t) >= 5 /\ t[1] = "e" /\ t[2] = "." /\ t[3] = "g"
           /\ t[4] = "." /\ t[5] = ","
        THEN <<>>
        ELSE t

IsPrefix(s, t) == Len(s) <= Len(t) /\ SubSeq(t, 1, Len(s)) = s

Registered == { RoleOrder[i] : i \in 1..Len(RoleOrder) }

UserCount(h)      == Cardinality({ i \in 1..Len(h) : h[i].role = "user" })
AssistantCount(h) == Cardinality({ i \in 1..Len(h) : h[i].role = "assistant" })

Balanced(h) ==
    /\ UserCount(h) = AssistantCount(h)
    /\ h # <<>> => h[Len(h)].role # "user"

\* The step is a Generate run that grew the history by one turn whose
\* assistant entry reads `reply`.
CommitsTurn(reply) ==
    LET n == Len(chat_history)
    IN  /\ Len(chat_history') = n + 2
        /\ SubSeq(chat_history', 1, n) = chat_history
        /\ chat_history'[n + 1].role = "user"
        /\ chat_history'[n + 1].content = CleanedForm(submit'.user_input)
        /\ chat_history'[n + 2].role = "assistant"
        /\ chat_history'[n + 2].content = reply
        /\ chat_history'[n + 2].role_name = submit'.role_name

----------------------------------------------------------------------------
(* Properties *)

\* C1: for every registered role, history and raw text with a non-empty
\* cleaned form t, a submit whose provider call returns a completion leaves
\* the history equal to the old history followed by a user entry with
\* content t and an assistant entry with the provider's (trimmed) answer and
\* the selected role's name.
C1_SuccessfulSubmitAppendsTurn ==
    [][ (clicked' = "generate" /\ response'.kind = "completion") =>
          /\ submit'.role_name \in Registered
          /\ CleanedForm(submit'.user_input) # <<>>
          /\ CommitsTurn(Trimmed(response'.text)) ]_vars

C1_Witness ==
    /\ clicked = "generate"
    /\ response.kind = "completion"
    /\ submit.user_input # CleanedForm(submit.user_input)
    /\ Len(chat_history) = 4
    /\ chat_history[2].role_name # chat_history[4].role_name

\* C2 (as stated): the history is balanced in every reachable state, and a
\* submit whose provider call fails adds zero entries.
C2_AsStated ==
    /\ [] Balanced(chat_history)
    /\ [][ (clicked' = "generate" /\ response'.kind = "error") =>
             chat_history' = chat_history ]_vars

\* C2 (amended): the history is balanced in every reachable state; a submit
\* whose provider call fails and is reported as ProviderError adds zero
\* entries, and a failed call answered with the mock response adds one
\* complete user/assistant pair.
C2_BalancedHistory ==
    /\ [] Balanced(chat_history)
    /\ [][ (clicked' = "generate" /\ response'.kind = "error") =>
             IF notice' = "ProviderError"
             THEN chat_history' = chat_history
             ELSE CommitsTurn(MockResponse) ]_vars

C2_Witness ==
    /\ clicked = "generate"
    /\ response.kind = "error"
    /\ notice = "ProviderError"
    /\ Len(chat_history) = 2

\* C3 (as stated): a submit whose cleaned text is empty reports EmptyInput,
\* makes no provider call and leaves the history unchanged.
C3_AsStated ==
    [][ (clicked' = "generate" /\ CleanedForm(submit'.user_input) = <<>>) =>
          /\ notice' = "EmptyInput"
          /\ request' = None
          /\ response'.kind = "none"
          /\ chat_history' = chat_history ]_vars

\* C3 (amended): a submit whose cleaned text is empty makes no provider call
\* and leaves the history unchanged; it reports EmptyInput when an API key
\* has been entered, and the missing-key error when none has.
C3_EmptyInputRejected ==
    [][ (clicked' = "generate" /\ CleanedForm(submit'.user_input) = <<>>) =>
          /\ notice' = IF submit'.api_key = "" THEN "NoApiKey" ELSE "EmptyInput"
          /\ request' = None
          /\ response'.kind = "none"
          /\ chat_history' = chat_history ]_vars

C3_Witness ==
    /\ clicked = "generate"
    /\ notice = "EmptyInput"
    /\ submit.user_input # <<>>
    /\ Trimmed(submit.user_input) # <<>>
    /\ submit.user_input[1] \in Whitespace
    /\ chat_history # <<>>

\* C4 (as stated): every failure of the provider call other than quota
\* exhaustion is reported as ProviderError and leaves the history unchanged.
C4_AsStated ==
    [][ (/\ clicked' = "generate"
         /\ response'.kind = "error"
         /\ response'.code # "insufficient_quota") =>
          /\ notice' = "ProviderError"
          /\ answer' = None
          /\ chat_history' = chat_history ]_vars

\* C5: when the provider reports insufficient quota the submit does not
\* fail: the turn is committed and its assistant entry is the fixed mock
\* response, which contains the marker "[Mock response]".
C5_QuotaCommitsMock ==
    [][ (/\ clicked' = "generate"
         /\ response'.kind = "error"
         /\ response'.code = "insufficient_quota") =>
          /\ notice' = "none"
          /\ answer' # None
          /\ CommitsTurn(MockResponse)
          /\ \E i \in 1..Len(chat_history'[Len(chat_history')].content) :
               chat_history'[Len(chat_history')].content[i] = "[Mock response]" ]_vars

C5_Witness ==
    /\ clicked = "generate"
    /\ response.kind = "error"
    /\ response.code = "insufficient_quota"
    /\ Len(chat_history) = 4
    /\ chat_history[4].content = MockResponse

\* C6: the request of a submit that reaches the provider is one system
\* message with the selected role's prompt, then the history entries in
\* order as (speaker tag, text), then a user message with the cleaned text;
\* its length is the history length plus 2.
C6_RequestAssembly ==
    [][ (clicked' = "generate" /\ response'.kind # "none") =>
          LET n == Len(chat_history)
              m == request'
          IN  /\ Len(m) = n + 2
              /\ m[1] = [ role    |-> "system",
                          content |-> ROLE_DEFINITIONS[submit'.role_name].system_prompt ]
              /\ { i \in 1..Len(m) : m[i].role = "system" } = { 1 }
              /\ \A i \in 1..n :
                   m[i + 1] = [ role    |-> chat_history[i].role,
                                content |-> chat_history[i].content ]
              /\ m[n + 2] = [ role    |-> "user",
                              content |-> CleanedForm(submit'.user_input) ] ]_vars

C6_Witness ==
    /\ clicked = "generate"
    /\ response.kind # "none"
    /\ Len(request) = 4
    /\ chat_history[2].role_name # submit.role_name

\* C7: clear empties the history from any state, leaves the registered roles
\* and their order unchanged, and a clear right after a clear leaves the
\* same empty history.
C7_ClearEmptiesHistory ==
    [][ /\ clicked' = "clear" =>
            /\ chat_history' = <<>>
            /\ role_options' = role_options
            /\ role_options' = RoleOrder
        /\ (clicked = "clear" /\ clicked' = "clear") =>
            chat_history' = chat_history ]_vars

C7_Witness ==
    /\ clicked = "clear"
    /\ render.listed = 4
    /\ chat_history = <<>>

\* C9: across every step that is not a clear the old history is a prefix of
\* the new one, and the only step that removes entries is clear, which
\* removes all of them.
C9_AppendOnly ==
    [][ /\ clicked' # "clear" => IsPrefix(chat_history, chat_history')
        /\ Len(chat_history') < Len(chat_history) =>
             (clicked' = "clear" /\ chat_history' = <<>>) ]_vars

C9_Witness ==
    /\ clicked = "generate"
    /\ notice = "none"
    /\ answer # None
    /\ Len(chat_history) = 4

\* C10: every assistant entry carries a role name that is a key of the role
\* table and a non-empty history ends with an assistant entry, so rendering
\* never hits a missing key and the latest response is shown whenever the
\* rendered history is non-empty.
C10_RenderLookupsSafe ==
    /\ \A i \in 1..Len(chat_history) :
         chat_history[i].role = "assistant" =>
           chat_history[i].role_name \in Registered
    /\ chat_history # <<>> => chat_history[Len(chat_history)].role = "assistant"
    /\ ~render.crashed
    /\ render.shown <=> render.listed > 0
    /\ clicked # "clear" => render.listed = Len(chat_history)

C10_Witness ==
    /\ Len(chat_history) = 4
    /\ render.shown
    /\ render.listed = 4
    /\ chat_history[2].role_name # chat_history[4].role_name

====
